---- MODULE Spec2Model ----
(***************************************************************************)
(* The registry's request handlers (src/src/handlers/api.py): create       *)
(* (SmartAPIHandler.post), slug update and refresh (SmartAPIHandler.put),  *)
(* delete (SmartAPIHandler.delete) and uptime check (UptimeHandler.get),   *)
(* over one shared document store.  Handlers run on a single event loop:   *)
(* a handler runs without interruption from one `await` to the next, so    *)
(* each action below is one such uninterrupted segment.  The controller    *)
(* class SmartAPI (find/get/save/refresh/check/delete) is not part of the  *)
(* sources at hand; its operators are written from the specification.      *)
(***************************************************************************)
EXTENDS Integers, FiniteSets, Sequences, TLC

\* ---------------------------------------------------------------- bounds
\* Number of requests that may be suspended at an `await` at the same time.
NumReq == 2
\* Number of configured SLACK_WEBHOOKS entries.
NumHooks == 2
\* Number of requests that may be suspended at once in the two-url workload.
NumReqTwo == 1

\* --------------------------------------------------------------- domains
NoUser == "anonymous"
Users == {"alice", "bob"}
Urls == {"u1", "u2"}
Ids == {"x1", "x2"}
NoSlug == "<none>"
\* no slug is reserved
ReservedSlugs_Empty == {}
ReservedSlugs == {"api"}
Slugs == {"s1"}
\* what a PUT body may carry in its slug field (NoSlug: the field is absent)
SlugArgs == {NoSlug, "", "api"} \cup Slugs
Docs == {"d1", "d2"}
BadDoc == "bad"
NoRaw == "<noraw>"
NoCode == -1
\* status codes of a fetch that delivered content
OkCodes == {200, 204, 299}
\* outcomes of a fetch that delivered none: no code at all, or the code of the answer
FailCodes == {NoCode, 302, 404, 503}

VARIABLES
    store,      \* the persisted entries: a function from the stored ids to entries
    inflight,   \* per request slot: the handler suspended at an await, or idle
    last,       \* the response most recently finalized
    query,      \* the outcome of the relation query most recently handled
    hist        \* history, read by no handler: the order in which the suspended
                \* refreshes called download_async

vars == <<store, inflight, last, query, hist>>

\* the request slots of the workload
Reqs == DOMAIN inflight

\* ------------------------------------------------ controller (SmartAPI)
\* the id of the entry registered for a url
IdOf(url) == IF url = "u1" THEN "x1" ELSE "x2"

\* Validator: documents of a known family validate and yield a version
Valid(raw) == raw \in Docs

VersionOf(raw) == IF raw = "d1" THEN "v1" ELSE IF raw = "d2" THEN "v2" ELSE "<nover>"

\* status-code mapping of the web document
StatusOf(code) ==
    IF code >= 200 /\ code <= 299 THEN "VALID"
    ELSE IF code >= 400 /\ code <= 499 THEN "INVALID"
    ELSE IF code >= 500 /\ code <= 599 THEN "UNAVAILABLE"
    ELSE "UNKNOWN"

\* SmartAPI.find(value, "url"): the id of the entry with this url, if any
FindUrl(st, url) == {i \in DOMAIN st : st[i].url = url}

\* SmartAPI.find(value, "slug")
FindSlug(st, slug) == {i \in DOMAIN st : st[i].slug = slug}

\* SmartAPI.get(_id): raises NotFoundError when absent
Exists(st, id) == id \in DOMAIN st

NoObj == [id |-> "-", url |-> "-", username |-> NoUser, slug |-> NoSlug, raw |-> NoRaw,
          version |-> "<nover>", status |-> "-", new |-> FALSE]

\* the in-memory object SmartAPI.get(_id) returns for a stored entry
Get(st, id) ==
    [id |-> id, url |-> st[id].url, username |-> st[id].username, slug |-> st[id].slug,
     raw |-> st[id].raw, version |-> st[id].version, status |-> st[id].status,
     new |-> FALSE]

\* SmartAPI(url) with raw assigned and validate() passed
NewObj(url, raw) ==
    [id |-> IdOf(url), url |-> url, username |-> NoUser, slug |-> NoSlug, raw |-> raw,
     version |-> VersionOf(raw), status |-> "-", new |-> TRUE]

EntryOf(obj) ==
    [url |-> obj.url, username |-> obj.username, slug |-> obj.slug, raw |-> obj.raw,
     version |-> obj.version, status |-> obj.status]

\* save() that does not reject a new entry whose url is registered
SaveFails_NoUrlCheck(st, obj) ==
    obj.slug # NoSlug /\ FindSlug(st, obj.slug) \ {obj.id} # {}

\* save() that does not reject a slug another entry holds
SaveFails_NoSlugCheck(st, obj) ==
    obj.new /\ FindUrl(st, obj.url) # {}

\* save() raises ControllerError: a new entry whose url is registered, or a
\* slug another entry holds (both enforced by the write itself)
SaveFails(st, obj) ==
    \/ obj.new /\ FindUrl(st, obj.url) # {}
    \/ obj.slug # NoSlug /\ FindSlug(st, obj.slug) \ {obj.id} # {}

\* save(): the object is written under its id
Save(st, obj) ==
    [i \in DOMAIN st \cup {obj.id} |-> IF i = obj.id THEN EntryOf(obj) ELSE st[i]]

\* smartapi.delete(): the entry is removed
Remove(st, id) == [i \in DOMAIN st \ {id} |-> st[i]]

\* smartapi.refresh(file): new content is taken only when fetched and valid;
\* otherwise the copy is kept and the status is NOFILE.  The value returned
\* is file.code.
Refresh(obj, file) ==
    IF file.ok /\ Valid(file.raw)
    THEN [obj EXCEPT !.raw = file.raw, !.version = VersionOf(file.raw),
                     !.status = StatusOf(file.code)]
    ELSE [obj EXCEPT !.status = "NOFILE"]

\* --------------------------------------------------------------- state
Idle == [op |-> "none", pc |-> "idle", user |-> NoUser, url |-> "-", dryrun |-> FALSE,
         obj |-> NoObj, k |-> 0, posted |-> 0]

NoResp == [op |-> "none", key |-> "-", http |-> 0, success |-> FALSE,
           status |-> "-", code |-> NoCode, details |-> "-"]

Resp(op, key, http) == [NoResp EXCEPT !.op = op, !.key = key, !.http = http]

\* ---------------------------------------------- MetaKGQueryHandler.get
\* taxonomy terms a filter may name
Terms == {"t1", "t2"}
\* the value of a field the request does not carry (None)
Absent == "<absent>"
\* what a request may carry in subject, object and predicate
FieldValues == {Absent, ""} \cup Terms
\* `for field in ["subject", "object", "predicate"]`
FieldOrder == <<"subject", "object", "predicate">>

\* biolink_model_toolkit.get_descendants(value): ValueError, or a list of terms
LookupResults == {[ok |-> FALSE, terms |-> {}]} \cup {[ok |-> TRUE, terms |-> S] : S \in SUBSET Terms}
\* the taxonomy a request sees: the outcome of the lookup of each term
Taxonomies == [Terms -> LookupResults]

\* a field of self.args as the request carried it
Untouched(value) == [list |-> FALSE, lit |-> value, terms |-> {}]
\* a field of self.args replaced by a list of terms (line 410)
Listed(S) == [list |-> TRUE, lit |-> "-", terms |-> S]

\* no lookup made for a field
NotLooked == [made |-> FALSE, ok |-> FALSE, terms |-> {}]
\* the lookup made for a field and what it gave
Looked(res) == [made |-> TRUE, ok |-> res.ok, terms |-> res.terms]

NoQuery == [http |-> 0, issued |-> FALSE, expand |-> FALSE, field |-> "-", value |-> "-",
            given |-> [f \in {"subject", "object", "predicate"} |-> Absent],
            looked |-> [f \in {"subject", "object", "predicate"} |-> NotLooked],
            args |-> [f \in {"subject", "object", "predicate"} |-> Untouched(Absent)]]

\* the lookup made whatever the expand flag says
FieldStep_IgnoreFlag(value, expand, tax) ==
    IF tax[value].ok
    THEN [raised |-> FALSE, looked |-> Looked(tax[value]), new |-> Listed(tax[value].terms)]
    ELSE [raised |-> TRUE, looked |-> Looked(tax[value]), new |-> Untouched(value)]

\* a failed lookup swallowed: the field falls back to its literal value
FieldStep_Swallow(value, expand, tax) ==
    IF expand
    THEN IF tax[value].ok
         THEN [raised |-> FALSE, looked |-> Looked(tax[value]), new |-> Listed(tax[value].terms)]
         ELSE [raised |-> FALSE, looked |-> Looked(tax[value]), new |-> Listed({value})]
    ELSE [raised |-> FALSE, looked |-> NotLooked, new |-> Listed({value})]

\* lines 401-409 for one field with a value: the new value of the field, or
\* the ValueError of the lookup
FieldStep(value, expand, tax) ==
    IF expand
    THEN IF tax[value].ok
         THEN [raised |-> FALSE, looked |-> Looked(tax[value]), new |-> Listed(tax[value].terms)]
         ELSE [raised |-> TRUE, looked |-> Looked(tax[value]), new |-> Untouched(value)]
    ELSE [raised |-> FALSE, looked |-> NotLooked, new |-> Listed({value})]

\* the loop of lines 397-410 from field i on, then the query of line 412;
\* `q` carries self.args and the lookups made so far
RECURSIVE FieldLoop(_, _, _, _)
FieldLoop(i, q, expand, tax) ==
    IF i > Len(FieldOrder)
    THEN [q EXCEPT !.http = 200, !.issued = TRUE]
    ELSE LET field == FieldOrder[i]
             value == q.given[field]
             step == FieldStep(value, expand, tax)
         IN  IF value = Absent \/ value = ""
             THEN \* `if not value: continue`
                  FieldLoop(i + 1, q, expand, tax)
             ELSE IF step.raised
             THEN \* HTTPError(400) naming the field and the value
                  [q EXCEPT !.http = 400, !.field = field, !.value = value,
                            !.looked[field] = step.looked]
             ELSE FieldLoop(i + 1,
                            [q EXCEPT !.args[field] = step.new,
                                      !.looked[field] = step.looked],
                            expand, tax)

\* get: the filters are rewritten and the query is handed to the generic
\* query layer, or the request ends with 400
MetaKGGet(given, expand, tax) ==
    /\ query' = FieldLoop(1, [NoQuery EXCEPT !.expand = expand, !.given = given,
                                             !.args = [f \in DOMAIN given |-> Untouched(given[f])]],
                          expand, tax)
    /\ UNCHANGED <<store, inflight, last, hist>>

\* the history of a slot that holds no suspended refresh
NoHist == [before |-> {}, overtaken |-> FALSE]

\* an empty registry and no request running, with `reqs` request slots
InitOn(reqs) ==
    /\ store = << >>
    /\ inflight = [r \in 1..reqs |-> Idle]
    /\ last = NoResp
    /\ query = NoQuery
    /\ hist = [r \in 1..reqs |-> NoHist]

\* a request that suspends takes the lowest free slot (slots are anonymous)
FreeSlot(r) == inflight[r].pc = "idle" /\ \A q \in Reqs : q < r => inflight[q].pc # "idle"

\* the slot a starting request is given: the lowest free one; a request that
\* ends before its first await needs none and is handled with every slot taken
Admitted(r) == FreeSlot(r) \/ (r = 1 /\ \A q \in Reqs : inflight[q].pc # "idle")

\* the decorator calling the handler whoever asks
github_authenticated_Off(user) == TRUE

\* @github_authenticated: no current_user, 401 and the handler is not called
github_authenticated(user) == user # NoUser

\* ------------------------------------------------- SmartAPIHandler.post
\* post without the duplicate-url check of line 154
PostStart_NoFind(r, user, url, dryrun) ==
    /\ Admitted(r)
    /\ IF ~github_authenticated(user)
       THEN /\ last' = Resp("post", url, 401)
            /\ UNCHANGED <<store, inflight>>
       ELSE /\ FreeSlot(r)
            /\ inflight' = [inflight EXCEPT ![r] =
                   [Idle EXCEPT !.op = "post", !.pc = "download", !.user = user,
                                !.url = url, !.dryrun = dryrun]]
            /\ UNCHANGED <<store, last>>

\* post, up to `await download_async(self.args.url)`
PostStart(r, user, url, dryrun) ==
    /\ Admitted(r)
    /\ IF ~github_authenticated(user)
       THEN /\ last' = Resp("post", url, 401)
            /\ UNCHANGED <<store, inflight>>
       ELSE IF FindUrl(store, url) # {}
       THEN /\ last' = Resp("post", url, 409)
            /\ UNCHANGED <<store, inflight>>
       ELSE /\ FreeSlot(r)
            /\ inflight' = [inflight EXCEPT ![r] =
                   [Idle EXCEPT !.op = "post", !.pc = "download", !.user = user,
                                !.url = url, !.dryrun = dryrun]]
            /\ UNCHANGED <<store, last>>

\* what `download_async(url)` can deliver to post: DownloadError, or a file
DownloadResults(docs) ==
    {[ok |-> FALSE, code |-> NoCode, raw |-> NoRaw]}
        \cup {[ok |-> TRUE, code |-> 200, raw |-> d] : d \in docs \cup {BadDoc}}

\* is the document tagged for the translator project ("x-translator" in info)
HasTranslator(raw) == raw = "d2"

\* settings "debug": _notify returns at once
Debug == FALSE

\* SLACK_WEBHOOKS: entry 1 is a typical hook, the others carry tags "translator"
HookTagged(k) == k > 1

\* does the loop of _notify post to hook k for this document
HookFires(k, obj) == ~HookTagged(k) \/ HasTranslator(obj.raw)

\* the first hook from k on that _notify posts to (NumHooks + 1: none is left)
RECURSIVE NextHook(_, _)
NextHook(k, obj) ==
    IF k > NumHooks THEN NumHooks + 1
    ELSE IF HookFires(k, obj) THEN k
    ELSE NextHook(k + 1, obj)

\* the slot of a post whose response is finalized: suspended in _notify at the
\* fetch of the first hook that fires, or finished when none does (k is the
\* hook being posted to, posted the number of posts this create has issued)
AfterFinish(slot, obj) ==
    IF Debug \/ NextHook(1, obj) > NumHooks THEN Idle
    ELSE [slot EXCEPT !.pc = "notify", !.obj = obj, !.k = NextHook(1, obj), !.posted = 1]

\* post with the dryrun exit of line 169 placed after the save
PostDownloaded_DryrunAfterSave(r, file) ==
    /\ inflight[r].op = "post" /\ inflight[r].pc = "download"
    /\ LET slot == inflight[r]
           url == slot.url
           obj0 == NewObj(url, file.raw)
           obj1 == Refresh([obj0 EXCEPT !.username = slot.user], file)
       IN  IF ~file.ok
           THEN /\ last' = [Resp("post", url, 400) EXCEPT !.details = "download"]
                /\ inflight' = [inflight EXCEPT ![r] = Idle]
                /\ UNCHANGED store
           ELSE IF ~Valid(file.raw)
           THEN /\ last' = [Resp("post", url, 400) EXCEPT !.details = "validation"]
                /\ inflight' = [inflight EXCEPT ![r] = Idle]
                /\ UNCHANGED store
           ELSE IF SaveFails(store, obj1)
           THEN /\ last' = [Resp("post", url, 400) EXCEPT !.details = "save"]
                /\ inflight' = [inflight EXCEPT ![r] = Idle]
                /\ UNCHANGED store
           ELSE IF slot.dryrun
           THEN /\ store' = Save(store, obj1)
                /\ last' = [Resp("post", url, 200) EXCEPT
                               !.success = TRUE, !.details = obj0.version]
                /\ inflight' = [inflight EXCEPT ![r] = Idle]
           ELSE /\ store' = Save(store, obj1)
                /\ last' = [Resp("post", url, 200) EXCEPT
                               !.success = TRUE, !.details = obj1.id]
                /\ inflight' = [inflight EXCEPT ![r] = AfterFinish(slot, obj1)]

\* post, from the return of download_async to the `await client.fetch` of
\* _notify (or to the end of the handler)
PostDownloaded(r, file) ==
    /\ inflight[r].op = "post" /\ inflight[r].pc = "download"
    /\ LET slot == inflight[r]
           url == slot.url
           obj0 == NewObj(url, file.raw)
           obj1 == Refresh([obj0 EXCEPT !.username = slot.user], file)
       IN  IF ~file.ok
           THEN \* DownloadError
                /\ last' = [Resp("post", url, 400) EXCEPT !.details = "download"]
                /\ inflight' = [inflight EXCEPT ![r] = Idle]
                /\ UNCHANGED store
           ELSE IF ~Valid(file.raw)
           THEN \* validate() raised
                /\ last' = [Resp("post", url, 400) EXCEPT !.details = "validation"]
                /\ inflight' = [inflight EXCEPT ![r] = Idle]
                /\ UNCHANGED store
           ELSE IF slot.dryrun
           THEN /\ last' = [Resp("post", url, 200) EXCEPT
                               !.success = TRUE, !.details = obj0.version]
                /\ inflight' = [inflight EXCEPT ![r] = Idle]
                /\ UNCHANGED store
           ELSE IF SaveFails(store, obj1)
           THEN \* save() raised ControllerError
                /\ last' = [Resp("post", url, 400) EXCEPT !.details = "save"]
                /\ inflight' = [inflight EXCEPT ![r] = Idle]
                /\ UNCHANGED store
           ELSE /\ store' = Save(store, obj1)
                /\ last' = [Resp("post", url, 200) EXCEPT
                               !.success = TRUE, !.details = obj1.id]
                /\ inflight' = [inflight EXCEPT ![r] = AfterFinish(slot, obj1)]

\* _notify that posts to the same webhook again after a failed post
NotifyFetched_Retry(r, ok) ==
    /\ inflight[r].op = "post" /\ inflight[r].pc = "notify"
    /\ LET slot == inflight[r]
           k == NextHook(slot.k + 1, slot.obj)
       IN  inflight' = [inflight EXCEPT ![r] =
                IF ~ok THEN [slot EXCEPT !.posted = slot.posted + 1]
                ELSE IF k > NumHooks THEN Idle
                ELSE [slot EXCEPT !.k = k, !.posted = slot.posted + 1]]
    /\ UNCHANGED <<store, last>>

\* _notify, from the return (or the exception) of one client.fetch to the next
NotifyFetched(r, ok) ==
    /\ inflight[r].op = "post" /\ inflight[r].pc = "notify"
    /\ LET slot == inflight[r]
           k == NextHook(slot.k + 1, slot.obj)
       IN  inflight' = [inflight EXCEPT ![r] =
                IF ~ok \/ k > NumHooks THEN Idle
                ELSE [slot EXCEPT !.k = k, !.posted = slot.posted + 1]]
    /\ UNCHANGED <<store, last>>

\* -------------------------------------------------- SmartAPIHandler.put
\* what `download_async(url, raise_error=False)` can deliver to a refresh
FetchResults(docs, codes) ==
    {[ok |-> FALSE, code |-> c, raw |-> NoRaw] : c \in codes \cap FailCodes}
        \cup {[ok |-> TRUE, code |-> c, raw |-> d] : c \in codes \cap OkCodes, d \in docs \cup {BadDoc}}

\* smartapi.webdoc.STATUS(code) raises ValueError
StatusRaises(code) == code = NoCode

Lower(name) ==
    CASE name = "VALID" -> "valid"
      [] name = "INVALID" -> "invalid"
      [] name = "UNAVAILABLE" -> "unavailable"
      [] name = "UNKNOWN" -> "unknown"
      [] OTHER -> "nofile"

\* the status name taken from the success test of line 271 instead of STATUS
ResponseStatus_TupleOnly(code) ==
    IF code \in {200, 299} THEN Lower(StatusOf(code)) ELSE "nofile"

\* the status name of the refresh response (lines 265-269)
ResponseStatus(code) == IF StatusRaises(code) THEN "nofile" ELSE Lower(StatusOf(code))

\* the success field of the refresh response: `code in (200, 299)`
RefreshSuccess(code) == code \in {200, 299}

\* the slug assigned as given, without `or None`
SlugOrNone_Keep(slug) == slug

\* `self.args.slug or None`
SlugOrNone(slug) == IF slug = "" THEN NoSlug ELSE slug

\* put with the reserved-slug test of line 248 placed before the ownership test
PutStart_ReservedFirst(r, user, id, slug) ==
    /\ Admitted(r)
    /\ IF ~github_authenticated(user)
       THEN /\ last' = Resp("put", id, 401)
            /\ UNCHANGED <<store, inflight>>
       ELSE IF ~Exists(store, id)
       THEN /\ last' = Resp("put", id, 404)
            /\ UNCHANGED <<store, inflight>>
       ELSE IF slug \in ReservedSlugs
       THEN /\ last' = [Resp("put", id, 400) EXCEPT !.details = "slug is reserved"]
            /\ UNCHANGED <<store, inflight>>
       ELSE IF Get(store, id).username # user
       THEN /\ last' = Resp("put", id, 403)
            /\ UNCHANGED <<store, inflight>>
       ELSE IF slug # NoSlug
       THEN LET obj == [Get(store, id) EXCEPT !.slug = SlugOrNone(slug)]
            IN  IF SaveFails(store, obj)
                THEN /\ last' = [Resp("put", id, 400) EXCEPT !.details = "save"]
                     /\ UNCHANGED <<store, inflight>>
                ELSE /\ store' = Save(store, obj)
                     /\ last' = [Resp("put", id, 200) EXCEPT !.success = TRUE]
                     /\ UNCHANGED inflight
       ELSE /\ FreeSlot(r)
            /\ inflight' = [inflight EXCEPT ![r] =
                   [Idle EXCEPT !.op = "put", !.pc = "fetch", !.user = user,
                                !.url = Get(store, id).url, !.obj = Get(store, id)]]
            /\ UNCHANGED <<store, last>>

\* put, up to `await download_async(...)` (refresh) or to its end (slug update)
PutStart(r, user, id, slug) ==
    /\ Admitted(r)
    /\ IF ~github_authenticated(user)
       THEN /\ last' = Resp("put", id, 401)
            /\ UNCHANGED <<store, inflight>>
       ELSE IF ~Exists(store, id)
       THEN /\ last' = Resp("put", id, 404)
            /\ UNCHANGED <<store, inflight>>
       ELSE IF Get(store, id).username # user
       THEN /\ last' = Resp("put", id, 403)
            /\ UNCHANGED <<store, inflight>>
       ELSE IF slug # NoSlug
       THEN LET obj == [Get(store, id) EXCEPT !.slug = SlugOrNone(slug)]
            IN  IF slug \in ReservedSlugs
                THEN /\ last' = [Resp("put", id, 400) EXCEPT !.details = "slug is reserved"]
                     /\ UNCHANGED <<store, inflight>>
                ELSE IF SaveFails(store, obj)
                THEN \* save() raised ControllerError: reason=str(err)
                     /\ last' = [Resp("put", id, 400) EXCEPT !.details = "save"]
                     /\ UNCHANGED <<store, inflight>>
                ELSE /\ store' = Save(store, obj)
                     /\ last' = [Resp("put", id, 200) EXCEPT !.success = TRUE]
                     /\ UNCHANGED inflight
       ELSE /\ FreeSlot(r)
            /\ inflight' = [inflight EXCEPT ![r] =
                   [Idle EXCEPT !.op = "put", !.pc = "fetch", !.user = user,
                                !.url = Get(store, id).url, !.obj = Get(store, id)]]
            /\ UNCHANGED <<store, last>>

\* put, from the return of download_async to the end of the refresh branch
PutFetched(r, file) ==
    /\ inflight[r].op = "put" /\ inflight[r].pc = "fetch"
    /\ LET obj == Refresh(inflight[r].obj, file)
           code == file.code
       IN  IF SaveFails(store, obj)
           THEN \* save() raises outside any try: the request ends as a server error
                /\ last' = Resp("put", obj.id, 500)
                /\ UNCHANGED store
           ELSE /\ store' = Save(store, obj)
                /\ last' = [Resp("put", obj.id, 200) EXCEPT
                               !.success = RefreshSuccess(code),
                               !.status = ResponseStatus(code), !.code = code]
    /\ inflight' = [inflight EXCEPT ![r] = Idle]

\* ----------------------------------------------- SmartAPIHandler.delete
\* delete without the ownership check of line 284
delete_NoOwnerCheck(user, id) ==
    /\ IF ~github_authenticated(user)
       THEN /\ last' = Resp("delete", id, 401)
            /\ UNCHANGED store
       ELSE IF ~Exists(store, id)
       THEN /\ last' = Resp("delete", id, 404)
            /\ UNCHANGED store
       ELSE /\ store' = Remove(store, id)
            /\ last' = [Resp("delete", id, 200) EXCEPT !.success = TRUE, !.details = id]
    /\ UNCHANGED inflight

delete(user, id) ==
    /\ IF ~github_authenticated(user)
       THEN /\ last' = Resp("delete", id, 401)
            /\ UNCHANGED store
       ELSE IF ~Exists(store, id)
       THEN /\ last' = Resp("delete", id, 404)
            /\ UNCHANGED store
       ELSE IF Get(store, id).username # user
       THEN /\ last' = Resp("delete", id, 403)
            /\ UNCHANGED store
       ELSE /\ store' = Remove(store, id)
            /\ last' = [Resp("delete", id, 200) EXCEPT !.success = TRUE, !.details = id]
    /\ UNCHANGED inflight

\* ---------------------------------------------------- UptimeHandler.get
\* what the liveness fetch of check() can observe (the content is not used)
CheckResults(codes) ==
    {[ok |-> FALSE, code |-> c, raw |-> NoRaw] : c \in codes \cap FailCodes}
        \cup {[ok |-> TRUE, code |-> c, raw |-> NoRaw] : c \in codes \cap OkCodes}

\* smartapi.check(): a liveness fetch that sets the status fields only
Check(obj, file) ==
    [obj EXCEPT !.status = IF file.ok THEN StatusOf(file.code) ELSE "UNAVAILABLE"]

\* get, for a request without a body that carries an id (the tests of lines
\* 335 and 338 pass); check() and save() run without an await in between
UptimeGet(user, id, file) ==
    /\ IF ~github_authenticated(user)
       THEN /\ last' = Resp("uptime", id, 401)
            /\ UNCHANGED store
       ELSE IF ~Exists(store, id)
       THEN /\ last' = Resp("uptime", id, 404)
            /\ UNCHANGED store
       ELSE IF Get(store, id).username # user
       THEN /\ last' = Resp("uptime", id, 403)
            /\ UNCHANGED store
       ELSE LET obj == Check(Get(store, id), file)
            IN  IF SaveFails(store, obj)
                THEN /\ last' = [Resp("uptime", id, 400) EXCEPT !.details = "save"]
                     /\ UNCHANGED store
                ELSE /\ store' = Save(store, obj)
                     /\ last' = [Resp("uptime", id, 200) EXCEPT
                                    !.success = TRUE, !.details = obj.status]
    /\ UNCHANGED inflight

AnyUser == Users \cup {NoUser}

\* is slot q suspended at the download of a refresh, in the record `slots`
Fetching(slots, q) == slots[q].op = "put" /\ slots[q].pc = "fetch"

\* The history after a step of the handlers.  For a refresh suspended at its
\* download, `before` holds the refreshes of the same entry that called
\* download_async earlier and are still suspended, and `overtaken` tells
\* that a refresh that called it later has since saved the content it
\* fetched (line 263 after a fetch that delivered valid content).
HistNext ==
    LET done == {d \in Reqs : Fetching(inflight, d) /\ ~Fetching(inflight', d)}
        stored(d) == /\ last'.op = "put" /\ last'.http = 200
                     /\ Exists(store', inflight[d].obj.id)
                     /\ store'[inflight[d].obj.id].status # "NOFILE"
    IN  [q \in Reqs |->
            IF ~Fetching(inflight', q) THEN NoHist
            ELSE IF Fetching(inflight, q)
            THEN [before |-> hist[q].before \ done,
                  overtaken |-> \/ hist[q].overtaken
                                \/ \E d \in done : q \in hist[d].before /\ stored(d)]
            ELSE [before |-> {b \in Reqs : /\ Fetching(inflight, b)
                                           /\ inflight[b].obj.id = inflight'[q].obj.id},
                  overtaken |-> FALSE]]

\* what a step of a handler leaves of the other variables: the history is
\* followed in the workloads that ask for it
Rest(W) ==
    /\ UNCHANGED query
    /\ IF W.track THEN hist' = HistNext ELSE UNCHANGED hist

\* the handlers, driven by the requests of a workload W: the urls (and ids)
\* requests name and the documents and status codes fetches deliver (W.reqs,
\* the number of requests that may be suspended at once, sets the slots)
NextOn(W) ==
    \/ \E r \in Reqs, user \in AnyUser, url \in W.urls, dryrun \in BOOLEAN :
          PostStart(r, user, url, dryrun) /\ Rest(W)
    \/ \E r \in Reqs, file \in DownloadResults(W.docs) :
          PostDownloaded(r, file) /\ Rest(W)
    \/ \E r \in Reqs, ok \in BOOLEAN : NotifyFetched(r, ok) /\ Rest(W)
    \/ \E r \in Reqs, user \in AnyUser, url \in W.urls, slug \in SlugArgs :
          PutStart(r, user, IdOf(url), slug) /\ Rest(W)
    \/ \E r \in Reqs, file \in FetchResults(W.docs, W.codes) :
          PutFetched(r, file) /\ Rest(W)
    \/ \E user \in AnyUser, url \in W.urls : delete(user, IdOf(url)) /\ Rest(W)
    \/ \E user \in AnyUser, url \in W.urls, file \in CheckResults(W.codes) :
          UptimeGet(user, IdOf(url), file) /\ Rest(W)

\* one url, every document and status code, NumReq suspended requests
OneUrl == [urls |-> {"u1"}, docs |-> Docs, codes |-> {200, 204, NoCode, 404}, reqs |-> NumReq,
           track |-> FALSE]

\* two urls, one document, one suspended request
TwoUrls == [urls |-> Urls, docs |-> {"d1"}, codes |-> {200, NoCode}, reqs |-> NumReqTwo,
            track |-> FALSE]

Init == InitOn(OneUrl.reqs)

Next == NextOn(OneUrl)

Spec == Init /\ [][Next]_vars

InitTwo == InitOn(TwoUrls.reqs)

NextTwo == NextOn(TwoUrls)

SpecTwo == InitTwo /\ [][NextTwo]_vars

\* one url, one document, a status code of every range, one suspended request
AllCodes == [urls |-> {"u1"}, docs |-> {"d1"}, codes |-> OkCodes \cup FailCodes,
             reqs |-> NumReqTwo, track |-> FALSE]

InitCodes == InitOn(AllCodes.reqs)

NextCodes == NextOn(AllCodes)

SpecCodes == InitCodes /\ [][NextCodes]_vars

\* one url, overlapping refreshes with the order of their downloads followed
Overlap == [urls |-> {"u1"}, docs |-> Docs, codes |-> {200}, reqs |-> NumReq,
            track |-> TRUE]

InitOverlap == InitOn(Overlap.reqs)

NextOverlap == NextOn(Overlap)

SpecOverlap == InitOverlap /\ [][NextOverlap]_vars

\* relation queries alone: every filter, flag and taxonomy
InitQuery == InitOn(NumReqTwo)

NextQuery ==
    \E given \in [{"subject", "object", "predicate"} -> FieldValues],
       expand \in BOOLEAN, tax \in Taxonomies :
        MetaKGGet(given, expand, tax)

SpecQuery == InitQuery /\ [][NextQuery]_vars

\* ================================================================ claims

\* C1: a create whose url equals the sourceURL of a stored entry ends with
\* 409 whatever else it carries (no content is even downloaded), leaves the
\* store and the suspended requests as they are; and no two stored entries
\* share a sourceURL.
C1_DuplicateUrlConflict ==
    /\ [][\A r \in Reqs, user \in Users, url \in Urls, dryrun \in BOOLEAN :
            (FindUrl(store, url) # {} /\ PostStart(r, user, url, dryrun))
                => (last' = Resp("post", url, 409) /\ store' = store
                    /\ inflight' = inflight)]_vars
    /\ [](\A i, j \in DOMAIN store : store[i].url = store[j].url => i = j)

\* a create was just refused with 409 while both urls are registered
C1_Witness ==
    /\ last.op = "post" /\ last.http = 409
    /\ FindUrl(store, last.key) # {}
    /\ Cardinality(DOMAIN store) = 2

\* C2: a create (not a dryrun) that resumes from its download while an entry
\* with its url is stored fails and writes nothing, so of two creates for one
\* url that are both suspended at the download the second to resume fails: a
\* create returns success with an _id only when no entry with its url is
\* stored at the moment of the write.
C2_ConcurrentCreatesNotBoth ==
    [][\A r \in Reqs, file \in DownloadResults(Docs) :
          (inflight[r].pc = "download" /\ ~inflight[r].dryrun
             /\ FindUrl(store, inflight[r].url) # {} /\ PostDownloaded(r, file))
              => (~last'.success /\ last'.http = 400 /\ store' = store)]_vars

\* the second of two concurrent creates was just refused by the write, the
\* entry of the first being stored
C2_Witness ==
    /\ last.op = "post" /\ last.http = 400 /\ last.details = "save"
    /\ FindUrl(store, last.key) # {}

\* C3: no step of a dryrun create changes the store, and a dryrun create of a
\* valid document returns success with the extracted version.
C3_DryrunNeverPersists ==
    [][\A r \in Reqs :
          /\ \A user \in Users, url \in Urls :
                (store' # store) => ~PostStart(r, user, url, TRUE)
          /\ \A file \in DownloadResults(Docs) :
                (inflight[r].pc = "download" /\ inflight[r].dryrun
                   /\ PostDownloaded(r, file))
                    => /\ store' = store
                       /\ (file.ok /\ Valid(file.raw))
                            => (last' = [Resp("post", inflight[r].url, 200) EXCEPT
                                            !.success = TRUE,
                                            !.details = VersionOf(file.raw)])]_vars

\* a dryrun create just returned success with a version and nothing is stored
C3_Witness ==
    /\ last.op = "post" /\ last.http = 200 /\ last.success
    /\ last.details \in {VersionOf(d) : d \in Docs}
    /\ FindUrl(store, last.key) = {}

\* C4: a delete of a stored entry by a logged-in user who is not its owner
\* ends with 403 and leaves the store unchanged.
C4_NonOwnerDeleteForbidden ==
    [][\A user \in Users, id \in Ids :
          (Exists(store, id) /\ store[id].username # user /\ delete(user, id))
              => (last' = Resp("delete", id, 403) /\ store' = store)]_vars

\* a delete was just refused with 403 and the entry is still stored
C4_Witness ==
    /\ last.op = "delete" /\ last.http = 403
    /\ Exists(store, last.key)

\* C5: after a delete by the owner has succeeded, the entry is not in the
\* store again unless a create re-registers it: an id enters the store only
\* by the step of a create that returns success (in particular not by the
\* save of a refresh that loaded the entry before the delete).
C5_DeleteIrreversible ==
    [][\A id \in Ids :
          (~Exists(store, id) /\ Exists(store', id))
              => \E r \in Reqs :
                    /\ inflight[r].op = "post" /\ inflight[r].pc = "download"
                    /\ inflight'[r] # inflight[r]
                    /\ last'.op = "post" /\ last'.success]_vars

\* C6: a setSlug by the owner with the reserved value "api" ends with 400
\* (slug is reserved) and leaves the store, the entry's slug included,
\* unchanged.
C6_ReservedSlugRejected ==
    [][\A r \in Reqs, user \in Users, id \in Ids :
          (Exists(store, id) /\ store[id].username = user
             /\ PutStart(r, user, id, "api"))
              => /\ last' = [Resp("put", id, 400) EXCEPT !.details = "slug is reserved"]
                 /\ store' = store
                 /\ inflight' = inflight]_vars

\* the reserved slug was just refused and the entry still holds its slug
C6_Witness ==
    /\ last.op = "put" /\ last.http = 400 /\ last.details = "slug is reserved"
    /\ Exists(store, last.key)
    /\ store[last.key].slug \in Slugs

\* C7: a setSlug by the owner with "" on an entry that holds a slug succeeds
\* and stores the slug as absent, not as "", so that no entry is found by the
\* old slug; a put by the owner without a slug field changes nothing and
\* suspends at the fetch of the refresh branch.
C7_EmptySlugClears ==
    [][\A r \in Reqs, user \in Users, id \in Ids :
          /\ (Exists(store, id) /\ store[id].username = user
                /\ store[id].slug # NoSlug /\ PutStart(r, user, id, ""))
               => /\ last' = [Resp("put", id, 200) EXCEPT !.success = TRUE]
                  /\ store'[id].slug = NoSlug
                  /\ store'[id].slug # ""
                  /\ FindSlug(store', store[id].slug) = {}
          /\ (Exists(store, id) /\ store[id].username = user
                /\ PutStart(r, user, id, NoSlug))
               => /\ inflight'[r].op = "put" /\ inflight'[r].pc = "fetch"
                  /\ store' = store /\ last' = last]_vars

\* a slug update just succeeded on an entry that now has no slug, while a
\* refresh suspended at its fetch still holds the slug the entry had
C7_Witness ==
    /\ last.op = "put" /\ last.http = 200 /\ last.success /\ last.status = "-"
    /\ Exists(store, last.key)
    /\ store[last.key].slug = NoSlug
    /\ FindSlug(store, "s1") = {}
    /\ \E r \in Reqs :
          /\ inflight[r].op = "put" /\ inflight[r].pc = "fetch"
          /\ inflight[r].obj.id = last.key
          /\ inflight[r].obj.slug = "s1"

C9_FailedRefreshKeepsContent ==
    [][\A r \in Reqs, file \in FetchResults(Docs, OkCodes \cup FailCodes) :
          LET id == inflight[r].obj.id
          IN  (inflight[r].pc = "fetch" /\ ~(file.ok /\ Valid(file.raw))
                 /\ Exists(store, id) /\ PutFetched(r, file))
                => /\ Exists(store', id)
                   /\ store'[id].raw = store[id].raw
                   /\ store'[id].version = store[id].version
                   /\ store'[id].status = "NOFILE"]_vars

\* C10: every refresh by the owner ends as a successful request: 200 with
\* success true, the status name and the code, whatever the fetch delivered;
\* a failed fetch is reported with status "nofile".
C10_RefreshAlwaysSucceeds ==
    [][\A r \in Reqs, file \in FetchResults(Docs, OkCodes \cup FailCodes) :
          (inflight[r].pc = "fetch" /\ PutFetched(r, file))
              => /\ last'.op = "put" /\ last'.http = 200
                 /\ last'.success
                 /\ last'.status # "-"
                 /\ last'.code = file.code
                 /\ (~file.ok => last'.status = "nofile")]_vars

C12_ExistenceThenOwnership ==
    [][\A user \in Users, id \in Ids :
          LET missing == ~Exists(store, id)
              foreign == Exists(store, id) /\ store[id].username # user
              refused(op) == /\ last' = Resp(op, id, IF missing THEN 404 ELSE 403)
                             /\ store' = store
                             /\ inflight' = inflight
          IN  (missing \/ foreign)
                => /\ \A r \in Reqs, slug \in SlugArgs :
                         PutStart(r, user, id, slug) => refused("put")
                   /\ delete(user, id) => refused("delete")
                   /\ \A file \in CheckResults(TwoUrls.codes) :
                         UptimeGet(user, id, file) => refused("uptime")]_vars

\* a put was just refused with 403 on an entry that holds no slug, while
\* the other entry holds a slug
C12_Witness ==
    /\ last = Resp("put", last.key, 403)
    /\ Exists(store, last.key)
    /\ store[last.key].slug = NoSlug
    /\ \E i \in DOMAIN store : i # last.key /\ store[i].slug = "s1"

\* C13: every stored entry has an owner, the acting user of the create that
\* stored it: a create stores its acting user as the owner, and no step
\* changes the owner of an entry that stays in the store.
C13_OwnerImmutable ==
    /\ [](\A id \in DOMAIN store : store[id].username \in Users)
    /\ [][/\ \A id \in Ids :
               (Exists(store, id) /\ Exists(store', id))
                   => store'[id].username = store[id].username
           /\ \A r \in Reqs :
               (inflight[r].op = "post" /\ inflight[r].pc = "download"
                  /\ inflight'[r] # inflight[r] /\ store' # store)
                   => store'[IdOf(inflight[r].url)].username = inflight[r].user]_vars

\* the fields of a relation query
Fields == {"subject", "object", "predicate"}

\* C14: with the expand flag false the query is issued with each present
\* field as the one-element list of its given value and each absent field
\* absent, and no lookup is made.
C14_ExpandOffLiteral ==
    (query.http # 0 /\ ~query.expand)
        => /\ query.http = 200 /\ query.issued
           /\ \A f \in Fields :
                 /\ ~query.looked[f].made
                 /\ query.args[f] = IF query.given[f] = Absent THEN Untouched(Absent)
                                    ELSE Listed({query.given[f]})

\* C14 as amended: with the expand flag false the query is issued with each
\* present, non-empty field as the one-element list of its given value and
\* each absent or empty field as the request carried it, and no lookup is made.
C14_ExpandOffNonEmpty ==
    (query.http # 0 /\ ~query.expand)
        => /\ query.http = 200 /\ query.issued
           /\ \A f \in Fields :
                 /\ ~query.looked[f].made
                 /\ query.args[f] = IF query.given[f] \in {Absent, ""}
                                    THEN Untouched(query.given[f])
                                    ELSE Listed({query.given[f]})

\* a query without expansion was issued with a term, an empty and an absent field
C14_Witness ==
    /\ query.http = 200 /\ query.issued /\ ~query.expand
    /\ query.given = [subject |-> "t1", object |-> "", predicate |-> Absent]
    /\ query.args.subject = Listed({"t1"})
    /\ query.args.object = Untouched("")

\* C15: with the expand flag true, a lookup that fails for a field ends the
\* request with 400 naming that field and the value the request carried for
\* it, and the query is not issued, also when fields earlier in the order
\* were expanded before.
C15_LookupFailureFailsAll ==
    \A f \in Fields :
        (query.looked[f].made /\ ~query.looked[f].ok)
            => /\ query.expand
               /\ query.http = 400 /\ ~query.issued
               /\ query.field = f
               /\ query.value = query.given[f]
               /\ query.value \in Terms

\* the lookup for predicate just failed after subject was expanded
C15_Witness ==
    /\ query.http = 400 /\ ~query.issued /\ query.expand
    /\ query.field = "predicate" /\ query.value = "t2"
    /\ query.looked.predicate.made /\ ~query.looked.predicate.ok
    /\ query.looked.subject.made /\ query.looked.subject.ok
    /\ query.args.subject.list

\* C16: with the expand flag true and every lookup succeeding, each field
\* that carries a term is the list of that term together with the descendants
\* the lookup returned (so the term itself is in it), and each absent field
\* is absent with no lookup made for it.
C16_ExpandIncludesValue ==
    (query.http = 200 /\ query.expand)
        => \A f \in Fields :
              /\ query.given[f] = Absent
                    => query.args[f] = Untouched(Absent) /\ ~query.looked[f].made
              /\ query.given[f] \in Terms
                    => /\ query.looked[f].made /\ query.looked[f].ok
                       /\ query.args[f] = Listed({query.given[f]} \cup query.looked[f].terms)
                       /\ query.given[f] \in query.args[f].terms

\* C17: a create starts notifying only in the step that stores its entry and
\* finalizes its success response, and never as a dryrun (nor after a
\* conflict, a failed download or a failed validation, which end the create);
\* a webhook post that returns or fails changes neither the response nor the
\* store, and the create never posts to the same webhook again.
C17_NotifyAfterResponse ==
    [][\A r \in Reqs :
          /\ (inflight'[r].pc = "notify" /\ inflight[r].pc # "notify")
                => /\ inflight[r].op = "post" /\ inflight[r].pc = "download"
                   /\ ~inflight[r].dryrun
                   /\ LET id == IdOf(inflight[r].url)
                      IN  /\ ~Exists(store, id) /\ Exists(store', id)
                          /\ store'[id] = EntryOf(inflight'[r].obj)
                          /\ last' = [Resp("post", inflight[r].url, 200) EXCEPT
                                         !.success = TRUE, !.details = id]
          /\ (inflight[r].pc = "notify" /\ inflight'[r] # inflight[r])
                => /\ store' = store /\ last' = last
                   /\ inflight'[r].pc \in {"notify", "idle"}
                   /\ inflight'[r].pc = "notify"
                         => /\ inflight'[r].k > inflight[r].k
                            /\ inflight'[r].posted = inflight[r].posted + 1
                            /\ inflight'[r].posted <= inflight'[r].k]_vars

\* a create is waiting for its second webhook post, after the first one
\* returned, with its entry stored and its success response finalized
C17_Witness ==
    \E r \in Reqs :
        /\ inflight[r].op = "post" /\ inflight[r].pc = "notify"
        /\ inflight[r].k = 2 /\ inflight[r].posted = 2
        /\ Exists(store, inflight[r].obj.id)
        /\ last.op = "post" /\ last.http = 200 /\ last.success
        /\ last.details = inflight[r].obj.id

\* C18: a refresh that called download_async before another refresh of the
\* same entry did, and resumes after that one saved the content it fetched,
\* does not replace the stored content by the different content of its own
\* (earlier) fetch.
C18_NoOlderContentOverNewer ==
    [][\A r \in Reqs, file \in FetchResults(Docs, OkCodes \cup FailCodes) :
          LET id == inflight[r].obj.id
          IN  (inflight[r].pc = "fetch" /\ hist[r].overtaken
                 /\ Exists(store, id) /\ file.ok /\ Valid(file.raw)
                 /\ store[id].raw # file.raw
                 /\ PutFetched(r, file))
                => store'[id].raw # file.raw]_vars

\* C19: the step that ends a refresh changes no slug: the entry it refreshes
\* keeps the slug it holds in the store at that moment (so a slug update that
\* completed while the refresh was suspended at its fetch stays in effect),
\* and only its content and status fields may change.
C19_RefreshKeepsSlug ==
    [][\A r \in Reqs, file \in FetchResults(Docs, OkCodes \cup FailCodes) :
          LET id == inflight[r].obj.id
          IN  (inflight[r].pc = "fetch" /\ Exists(store, id) /\ PutFetched(r, file))
                => /\ Exists(store', id)
                   /\ store'[id].slug = store[id].slug
                   /\ store'[id].url = store[id].url
                   /\ store'[id].username = store[id].username]_vars

\* C20: a create, setSlug, refresh, delete or uptime check without a
\* logged-in user ends with 401 and nothing else happens: the store is
\* unchanged and no request is left suspended at a download or a webhook
\* post, whether or not the url or the id is registered.
C20_UnauthenticatedRejected ==
    [][LET rejected(op, key) == /\ last' = Resp(op, key, 401)
                               /\ store' = store
                               /\ inflight' = inflight
       IN  /\ \A r \in Reqs, url \in Urls, dryrun \in BOOLEAN :
                 PostStart(r, NoUser, url, dryrun) => rejected("post", url)
           /\ \A r \in Reqs, id \in Ids, slug \in SlugArgs :
                 PutStart(r, NoUser, id, slug) => rejected("put", id)
           /\ \A id \in Ids :
                 /\ delete(NoUser, id) => rejected("delete", id)
                 /\ \A file \in CheckResults(TwoUrls.codes) :
                       UptimeGet(NoUser, id, file) => rejected("uptime", id)]_vars

\* a put without a user was just answered 401 on an id that is not stored,
\* in a registry that holds another entry
C20_Witness ==
    /\ last = Resp("put", last.key, 401)
    /\ ~Exists(store, last.key)
    /\ DOMAIN store # {}
====
